---- MODULE Spec2Model ----
(***************************************************************************)
(* LocationPicker (src/src/components/LocationPicker.tsx): a React         *)
(* component with a debounced geocoding search, a result popover, and a    *)
(* mapbox map with one draggable marker.  The model is the component's     *)
(* state (useState cells, refs), the browser objects it owns (timers,      *)
(* in-flight fetches, map instances) and one action per event handler.     *)
(***************************************************************************)
EXTENDS Integers, Sequences, FiniteSets, TLC

\* ---------------------------------------------------------------- bounds
\* Most lookups that may be in flight at the same time.
MaxInflight == 2

\* ------------------------------------------------------ program constants
DebounceMs == 300
InitZoom == 6
FlyZoom == 14
DefaultLat == 28
DefaultLng == 84

\* The clock advances in steps of the debounce interval.
TickMs == DebounceMs

\* ------------------------------------------------------------ input sets
\* Texts are sequences of characters; " " is the whitespace character.
Whitespace == {" "}
TypedTexts == {<<>>, <<" ">>, <<"a">>}
LabelA == <<"a">>
LabelB == <<"b">>
Labels == {LabelA, LabelB}
Texts == TypedTexts \cup Labels

\* Coordinates the user can click or drag to, as the {lng, lat} objects
\* mapbox hands to handlers.  The first is the default initial coordinate.
OtherLat == DefaultLat - 1
OtherLng == DefaultLng + 1
Coords == {[lng |-> DefaultLng, lat |-> DefaultLat], [lng |-> OtherLng, lat |-> OtherLat]}
Zooms == {InitZoom, FlyZoom}

\* Features the geocoding service can return: more fields than the
\* component keeps; center is the array [lng, lat].
FeatureA == [id |-> "place.1", place_name |-> LabelA, center |-> <<OtherLng, OtherLat>>]
FeatureB == [id |-> "place.2", place_name |-> LabelB, center |-> <<DefaultLng, DefaultLat>>]
Responses == {<<>>, <<FeatureA>>, <<FeatureA, FeatureB>>}
FailureKinds == {"fetch rejects", "body is not JSON", "no features list"}

\* The identities the host may pass as onLocationSelected.
Callbacks == {"cb1", "cb2"}

NoMap == [id |-> 0, center |-> <<0, 0>>, zoom |-> 0]
NoMarker == [id |-> 0, lng |-> 0, lat |-> 0]

VARIABLES
    mounted,            \* the component is mounted
    mapContainer,       \* mapContainer.current is attached (not null)
    initialLat,         \* prop
    initialLng,         \* prop
    onLocationSelected, \* prop (identity of the host callback)
    searchInput,        \* useState('')
    open,               \* useState(false)
    searchResults,      \* useState([])
    map,                \* map.current and the viewport of the map it names
    marker,             \* marker.current and the position of the marker it names
    liveMaps,           \* ids of the map instances created and not removed
    handlerCb,          \* onLocationSelected captured by the map's handlers
    dragging,           \* a marker drag is in progress
    timers,             \* armed setTimeout timers
    timeoutId,          \* timeoutId of the latest run of the debounce effect
    inflight,           \* fetches issued and not settled, oldest first
    errorLogged,        \* history: console.error was called by the last step
    unhandled,          \* a rejection escaped handleSearch
    emitted,            \* history: host callback calls made by the last step
    lastCall,           \* history: arguments of the latest host callback call
    requested,          \* history: queries fetch was called with by the last step
    fired,              \* history: runs of handleSearch since the text last changed
    lookups,            \* history: fetches issued in the current keystroke sequence
    superseded,         \* history: the current keystroke sequence cancelled a pending timer
    latestPending,      \* history: the lookup issued last is still in flight
    staleList           \* history: the list was last written by a response of an earlier lookup

props == <<initialLat, initialLng, onLocationSelected>>
mapVars == <<map, marker, liveMaps, handlerCb, dragging>>
searchVars == <<searchInput, searchResults, timers, timeoutId, inflight, unhandled>>
lookupHist == <<latestPending, staleList>>
history == <<emitted, lastCall, requested, errorLogged, fired, lookups, superseded, lookupHist>>
vars == <<mounted, mapContainer, props, open, mapVars, searchVars, history>>

NoCall == <<>>

\* ------------------------------------------------------------ text helpers
RECURSIVE TrimStart(_)
TrimStart(s) == IF s # <<>> /\ Head(s) \in Whitespace THEN TrimStart(Tail(s)) ELSE s

RECURSIVE TrimEnd(_)
TrimEnd(s) ==
    IF s # <<>> /\ s[Len(s)] \in Whitespace THEN TrimEnd(SubSeq(s, 1, Len(s) - 1)) ELSE s

\* String.prototype.trim
Trim(s) == TrimEnd(TrimStart(s))

\* Mutant: the guard tests the text without trimming it.
QueryIsBlank_NoTrim(query) == query = <<>>

\* `!query.trim()`: the empty string is the only falsy string.
QueryIsBlank(query) == Trim(query) = <<>>

\* encodeURIComponent on the model's alphabet: a space becomes %20.
EncodeURIComponent(s) == [i \in 1..Len(s) |-> IF s[i] = " " THEN "%20" ELSE s[i]]

\* The request fetch is called with.
Request(query) == [query |-> query, path |-> EncodeURIComponent(query)]

\* Mutant: the entry keeps the center as [lat, lng].
ToSearchResults_SwapsCenter(features) ==
    [i \in 1..Len(features) |->
        [place_name |-> features[i].place_name,
         center |-> <<features[i].center[2], features[i].center[1]>>]]

\* data.features.map(feature => ({place_name, center}))
ToSearchResults(features) ==
    [i \in 1..Len(features) |->
        [place_name |-> features[i].place_name, center |-> features[i].center]]

\* A state setter called after unmount is ignored by React.
SetSearchResults(value) == IF mounted THEN value ELSE searchResults

\* ------------------------------------------------------------ timers
\* Mutant: clearTimeout disarms nothing.
ClearTimeout_Noop(ts, id) == ts

\* clearTimeout(id): the timer with that id, if still armed, is disarmed.
ClearTimeout(ts, id) == {t \in ts : t.id # id}

\* Mutant: the effect returns no cleanup.
DebounceCleanup_Missing(ts) == ts

\* The cleanup the debounce effect returns: () => clearTimeout(timeoutId).
DebounceCleanup(ts) == ClearTimeout(ts, timeoutId)

\* setTimeout returns an id no armed timer has.
FreshTimerId(ts) == CHOOSE i \in 1..(Cardinality(ts) + 1) : \A t \in ts : t.id # i

\* setTimeout(() => handleSearch(searchInput), 300): the closure captures
\* the text of the render that ran the effect.
NewTimer(ts, text) == [id |-> FreshTimerId(ts), query |-> text, remaining |-> DebounceMs]

\* Mutant: an empty dependency list, the effect runs on mount only.
DebounceDepsChanged_Never(old, new) == FALSE

\* The dependency list [searchInput]: the effect re-runs when the text differs.
DebounceDepsChanged(old, new) == old # new

\* A re-run of the debounce effect: the previous run's cleanup, then the body.
DebounceRerun(text) ==
    LET cleared == DebounceCleanup(timers)
        tm == NewTimer(cleared, text)
    IN  /\ timers' = cleared \cup {tm}
        /\ timeoutId' = tm.id

\* setSearchInput(text), and the effect it schedules.  A keystroke sequence
\* continues while each change finds the previous timer still pending.
SetSearchInput(text) ==
    /\ searchInput' = text
    /\ IF DebounceDepsChanged(searchInput, text)
       THEN DebounceRerun(text)
       ELSE UNCHANGED <<timers, timeoutId>>
    /\ IF searchInput # text
       THEN /\ fired' = 0
            /\ lookups' = IF timers # {} THEN lookups ELSE 0
            /\ superseded' = (timers # {})
       ELSE UNCHANGED <<fired, lookups, superseded>>

\* ------------------------------------------------------------ map effect
FreshMapId(live) == CHOOSE i \in 1..(Cardinality(live) + 1) : i \notin live

\* Mutant: the map effect returns no cleanup.
MapCleanup_Missing(live) == live

\* The effect's cleanup, map.current?.remove(): registered only by a run
\* that got past the container check.
MapCleanup(live) == IF mapContainer /\ map.id # 0 THEN live \ {map.id} ELSE live

\* Mutant: the effect does not check the container.
MapEffect_NoContainerCheck(live, lat, lng, cb) ==
    LET id == FreshMapId(live)
    IN  [map |-> [id |-> id, center |-> <<lng, lat>>, zoom |-> InitZoom],
         marker |-> [id |-> id, lng |-> lng, lat |-> lat],
         live |-> live \cup {id},
         cb |-> cb]

\* The body of the map effect, run with the props lat, lng, cb over the
\* live maps the cleanup left.
MapEffect(live, lat, lng, cb) ==
    IF ~mapContainer
    THEN [map |-> map, marker |-> marker, live |-> live, cb |-> handlerCb]
    ELSE LET id == FreshMapId(live)
         IN  [map |-> [id |-> id, center |-> <<lng, lat>>, zoom |-> InitZoom],
              marker |-> [id |-> id, lng |-> lng, lat |-> lat],
              live |-> live \cup {id},
              cb |-> cb]

\* ------------------------------------------------------------ host callback
Call(by, cb, lat, lng) == [by |-> by, cb |-> cb, args |-> <<lat, lng>>]

Emit(calls) ==
    /\ emitted' = calls
    /\ lastCall' = IF calls = <<>> THEN lastCall ELSE calls[Len(calls)].args

\* marker.setLngLat([lng, lat])
SetLngLat(mk, lnglat) == [mk EXCEPT !.lng = lnglat[1], !.lat = lnglat[2]]

\* map.flyTo({center, zoom}): the viewport the animation ends in.
FlyTo(m, center, zoom) == [m EXCEPT !.center = center, !.zoom = zoom]

\* ------------------------------------------------------------ Init
Init ==
    /\ mounted = TRUE
    /\ mapContainer \in BOOLEAN
    /\ \E c \in Coords : initialLat = c.lat /\ initialLng = c.lng
    /\ onLocationSelected \in Callbacks
    /\ searchInput = <<>>
    /\ open = FALSE
    /\ searchResults = <<>>
    /\ LET m == IF mapContainer
                THEN [map |-> [id |-> 1, center |-> <<initialLng, initialLat>>, zoom |-> InitZoom],
                      marker |-> [id |-> 1, lng |-> initialLng, lat |-> initialLat],
                      live |-> {1}]
                ELSE [map |-> NoMap, marker |-> NoMarker, live |-> {}]
       IN  /\ map = m.map
           /\ marker = m.marker
           /\ liveMaps = m.live
    /\ handlerCb = onLocationSelected
    /\ dragging = FALSE
    /\ timers = {[id |-> 1, query |-> <<>>, remaining |-> DebounceMs]}
    /\ timeoutId = 1
    /\ inflight = <<>>
    /\ errorLogged = FALSE
    /\ unhandled = FALSE
    /\ emitted = <<>>
    /\ lastCall = NoCall
    /\ requested = <<>>
    /\ fired = 0
    /\ lookups = 0
    /\ superseded = FALSE
    /\ latestPending = FALSE
    /\ staleList = FALSE

\* ------------------------------------------------------------ search input
\* Mutant: onChange opens the result list as well.
Type_OpensList(text) ==
    /\ mounted
    /\ text # searchInput
    /\ SetSearchInput(text)
    /\ open' = TRUE
    /\ Emit(<<>>)
    /\ requested' = <<>>
    /\ errorLogged' = FALSE
    /\ UNCHANGED <<mounted, mapContainer, props, mapVars, searchResults, inflight, unhandled, lookupHist>>

\* onChange of the input: setSearchInput(e.target.value).
Type(text) ==
    /\ mounted
    /\ text # searchInput
    /\ SetSearchInput(text)
    /\ Emit(<<>>)
    /\ requested' = <<>>
    /\ errorLogged' = FALSE
    /\ UNCHANGED <<mounted, mapContainer, props, open, mapVars,
                   searchResults, inflight, unhandled, lookupHist>>

\* handleSearch up to its first await: what it sets the result list to,
\* and the requests it hands to fetch.
HandleSearchStart(query) ==
    IF QueryIsBlank(query)
    THEN [results |-> SetSearchResults(<<>>), requests |-> <<>>]
    ELSE [results |-> searchResults, requests |-> <<Request(query)>>]

\* The timer's callback runs: handleSearch(searchInput) with the captured text.
TimerFire(tm) ==
    /\ tm \in timers
    /\ tm.remaining = 0
    /\ LET hs == HandleSearchStart(tm.query)
       IN  /\ Len(inflight) + Len(hs.requests) <= MaxInflight
           /\ searchResults' = hs.results
           /\ inflight' = inflight \o hs.requests
           /\ requested' = [i \in 1..Len(hs.requests) |-> hs.requests[i].query]
           /\ lookups' = lookups + Len(hs.requests)
           /\ latestPending' = (latestPending \/ hs.requests # <<>>)
           /\ staleList' = (staleList /\ ~(hs.requests = <<>> /\ mounted))
    /\ timers' = timers \ {tm}
    /\ fired' = fired + 1
    /\ errorLogged' = FALSE
    /\ Emit(<<>>)
    /\ UNCHANGED <<mounted, mapContainer, props, open, mapVars, searchInput,
                   timeoutId, unhandled, superseded>>

\* Time passes; a timer that is due runs before the clock moves on.
Tick ==
    /\ timers # {}
    /\ \A t \in timers : t.remaining > 0
    /\ timers' = {[t EXCEPT !.remaining = IF t.remaining > TickMs THEN t.remaining - TickMs ELSE 0]
                    : t \in timers}
    /\ Emit(<<>>)
    /\ requested' = <<>>
    /\ errorLogged' = FALSE
    /\ UNCHANGED <<mounted, mapContainer, props, open, mapVars, searchInput, searchResults,
                   timeoutId, inflight, unhandled, fired, lookups, superseded, lookupHist>>

Remove(seq, i) == SubSeq(seq, 1, i - 1) \o SubSeq(seq, i + 1, Len(seq))

\* Lookups are kept in the order fetch was called: the one issued last,
\* while it is in flight, is the last of them.
IsLatest(i) == latestPending /\ i = Len(inflight)

\* Mutant: a response is applied only if its lookup is the one issued last.
ApplyResponse_LatestOnly(i, results) ==
    IF IsLatest(i)
    THEN [results |-> SetSearchResults(results), stale |-> staleList /\ ~mounted]
    ELSE [results |-> searchResults, stale |-> staleList]

\* setSearchResults(...) after the awaits of the i-th lookup in flight:
\* whichever lookup the response belongs to, it replaces the list.
ApplyResponse(i, results) ==
    [results |-> SetSearchResults(results),
     stale |-> IF mounted THEN ~IsLatest(i) ELSE staleList]

\* The i-th lookup in flight resolves with a features list.
FetchResolve(i, features) ==
    /\ i \in 1..Len(inflight)
    /\ inflight' = Remove(inflight, i)
    /\ LET applied == ApplyResponse(i, ToSearchResults(features))
       IN  /\ searchResults' = applied.results
           /\ staleList' = applied.stale
    /\ latestPending' = (latestPending /\ ~IsLatest(i))
    /\ Emit(<<>>)
    /\ requested' = <<>>
    /\ errorLogged' = FALSE
    /\ UNCHANGED <<mounted, mapContainer, props, open, mapVars, searchInput, timers,
                   timeoutId, unhandled, fired, lookups, superseded>>

\* Mutant: no try/catch, the rejection leaves handleSearch.
CatchSearchError_Uncaught ==
    [results |-> searchResults, logged |-> FALSE, unhandled |-> TRUE]

\* The catch block of handleSearch.
CatchSearchError ==
    [results |-> SetSearchResults(<<>>), logged |-> TRUE, unhandled |-> unhandled]

\* The i-th lookup in flight fails: fetch rejects, response.json() rejects,
\* or data.features is undefined and .map throws.
FetchFail(i, kind) ==
    /\ i \in 1..Len(inflight)
    /\ kind \in FailureKinds
    /\ inflight' = Remove(inflight, i)
    /\ searchResults' = CatchSearchError.results
    /\ errorLogged' = CatchSearchError.logged
    /\ unhandled' = CatchSearchError.unhandled
    /\ staleList' = (staleList /\ ~mounted)
    /\ latestPending' = (latestPending /\ ~IsLatest(i))
    /\ Emit(<<>>)
    /\ requested' = <<>>
    /\ UNCHANGED <<mounted, mapContainer, props, open, mapVars, searchInput, timers,
                   timeoutId, fired, lookups, superseded>>

\* ------------------------------------------------------------ popover
\* onClick of the input: setOpen(true).
InputClick ==
    /\ mounted
    /\ open' = TRUE
    /\ Emit(<<>>)
    /\ requested' = <<>>
    /\ errorLogged' = FALSE
    /\ UNCHANGED <<mounted, mapContainer, props, mapVars, searchVars, fired, lookups, superseded, lookupHist>>

\* A press on the popover's trigger area (the search button): the popover
\* component asks for no change of visibility.
TriggerPress ==
    /\ mounted
    /\ open' = open
    /\ Emit(<<>>)
    /\ requested' = <<>>
    /\ errorLogged' = FALSE
    /\ UNCHANGED <<mounted, mapContainer, props, mapVars, searchVars, fired, lookups, superseded, lookupHist>>

\* onOpenChange={setOpen}: the popover asks to close (Escape, a press outside).
PopoverDismiss ==
    /\ mounted
    /\ open
    /\ open' = FALSE
    /\ Emit(<<>>)
    /\ requested' = <<>>
    /\ errorLogged' = FALSE
    /\ UNCHANGED <<mounted, mapContainer, props, mapVars, searchVars, fired, lookups, superseded, lookupHist>>

\* ------------------------------------------------------------ selection
\* Mutant: the center array is destructured as [lat, lng].
SelectLocationOutcome_Swapped(result) ==
    LET lat == result.center[1]
        lng == result.center[2]
    IN  [marker |-> IF marker.id # 0 THEN SetLngLat(marker, <<lng, lat>>) ELSE marker,
         map |-> IF map.id # 0 THEN FlyTo(map, <<lng, lat>>, FlyZoom) ELSE map,
         searchInput |-> result.place_name,
         open |-> FALSE,
         calls |-> <<Call("select", onLocationSelected, lat, lng)>>]

\* Mutant: the selection leaves the search text as it is.
SelectLocationOutcome_KeepsText(result) ==
    LET lng == result.center[1]
        lat == result.center[2]
    IN  [marker |-> IF marker.id # 0 THEN SetLngLat(marker, <<lng, lat>>) ELSE marker,
         map |-> IF map.id # 0 THEN FlyTo(map, <<lng, lat>>, FlyZoom) ELSE map,
         searchInput |-> searchInput,
         open |-> FALSE,
         calls |-> <<Call("select", onLocationSelected, lat, lng)>>]

\* selectLocation(result): its writes and its call of the host callback.
SelectLocationOutcome(result) ==
    LET lng == result.center[1]
        lat == result.center[2]
    IN  [marker |-> IF marker.id # 0 THEN SetLngLat(marker, <<lng, lat>>) ELSE marker,
         map |-> IF map.id # 0 THEN FlyTo(map, <<lng, lat>>, FlyZoom) ELSE map,
         searchInput |-> result.place_name,
         open |-> FALSE,
         calls |-> <<Call("select", onLocationSelected, lat, lng)>>]

\* onSelect of the i-th item of the result list, which the open popover shows.
SelectLocation(i) ==
    /\ mounted
    /\ open
    /\ i \in 1..Len(searchResults)
    /\ LET out == SelectLocationOutcome(searchResults[i])
       IN  /\ marker' = out.marker
           /\ map' = out.map
           /\ SetSearchInput(out.searchInput)
           /\ open' = out.open
           /\ Emit(out.calls)
    /\ requested' = <<>>
    /\ errorLogged' = FALSE
    /\ UNCHANGED <<mounted, mapContainer, props, liveMaps, handlerCb, dragging,
                   searchResults, inflight, unhandled, lookupHist>>

\* ------------------------------------------------------------ map surface
\* Mutant: the click handler recentres the map, as a selection does.
MapClickOutcome_FlyTo(c) ==
    [marker |-> IF marker.id # 0 THEN SetLngLat(marker, <<c.lng, c.lat>>) ELSE marker,
     map |-> FlyTo(map, <<c.lng, c.lat>>, FlyZoom),
     calls |-> <<Call("click", handlerCb, c.lat, c.lng)>>]

\* The map's click handler, for a click at e.lngLat = c.
MapClickOutcome(c) ==
    [marker |-> IF marker.id # 0 THEN SetLngLat(marker, <<c.lng, c.lat>>) ELSE marker,
     map |-> map,
     calls |-> <<Call("click", handlerCb, c.lat, c.lng)>>]

MapClick(c) ==
    /\ mounted
    /\ map.id \in liveMaps
    /\ ~dragging
    /\ LET out == MapClickOutcome(c)
       IN  /\ marker' = out.marker
           /\ map' = out.map
           /\ Emit(out.calls)
    /\ requested' = <<>>
    /\ errorLogged' = FALSE
    /\ UNCHANGED <<mounted, mapContainer, props, open, liveMaps, handlerCb, dragging,
                   searchVars, fired, lookups, superseded, lookupHist>>

\* Mutant: the handler is registered for 'drag' as well.
MarkerDragCalls_OnDrag(c) == <<Call("drag", handlerCb, c.lat, c.lng)>>

\* The user drags the marker: mapbox moves it; the component has no handler.
MarkerDragCalls(c) == <<>>

MarkerDrag(c) ==
    /\ mounted
    /\ marker.id \in liveMaps
    /\ <<c.lng, c.lat>> # <<marker.lng, marker.lat>>
    /\ marker' = SetLngLat(marker, <<c.lng, c.lat>>)
    /\ dragging' = TRUE
    /\ Emit(MarkerDragCalls(c))
    /\ requested' = <<>>
    /\ errorLogged' = FALSE
    /\ UNCHANGED <<mounted, mapContainer, props, open, map, liveMaps, handlerCb,
                   searchVars, fired, lookups, superseded, lookupHist>>

\* The marker's dragend handler: marker.current?.getLngLat(), then the callback.
DragEndCalls ==
    IF marker.id # 0
    THEN <<Call("dragend", handlerCb, marker.lat, marker.lng)>>
    ELSE <<>>

\* Mutant: the dragend handler also resets the search box.
MarkerDragEnd_ClearsSearch ==
    /\ mounted
    /\ dragging
    /\ dragging' = FALSE
    /\ SetSearchInput(<<>>)
    /\ searchResults' = <<>>
    /\ Emit(DragEndCalls)
    /\ requested' = <<>>
    /\ errorLogged' = FALSE
    /\ UNCHANGED <<mounted, mapContainer, props, open, map, marker, liveMaps, handlerCb,
                   inflight, unhandled, lookupHist>>

MarkerDragEnd ==
    /\ mounted
    /\ dragging
    /\ dragging' = FALSE
    /\ Emit(DragEndCalls)
    /\ requested' = <<>>
    /\ errorLogged' = FALSE
    /\ UNCHANGED <<mounted, mapContainer, props, open, map, marker, liveMaps, handlerCb,
                   searchVars, fired, lookups, superseded, lookupHist>>

\* Scroll zoom and the navigation control: the user changes the zoom level.
MapZoom(z) ==
    /\ mounted
    /\ map.id \in liveMaps
    /\ z # map.zoom
    /\ map' = [map EXCEPT !.zoom = z]
    /\ Emit(<<>>)
    /\ requested' = <<>>
    /\ errorLogged' = FALSE
    /\ UNCHANGED <<mounted, mapContainer, props, open, marker, liveMaps, handlerCb, dragging,
                   searchVars, fired, lookups, superseded, lookupHist>>

\* ------------------------------------------------------------ lifecycle
\* The host re-renders with a changed initialLat, initialLng or
\* onLocationSelected: the map effect's cleanup runs, then its body.
PropsChange(c, cb) ==
    /\ mounted
    /\ <<c.lat, c.lng, cb>> # props
    /\ initialLat' = c.lat
    /\ initialLng' = c.lng
    /\ onLocationSelected' = cb
    /\ LET eff == MapEffect(MapCleanup(liveMaps), c.lat, c.lng, cb)
       IN  /\ map' = eff.map
           /\ marker' = eff.marker
           /\ liveMaps' = eff.live
           /\ handlerCb' = eff.cb
    /\ dragging' = FALSE
    /\ Emit(<<>>)
    /\ requested' = <<>>
    /\ errorLogged' = FALSE
    /\ UNCHANGED <<mounted, mapContainer, open, searchVars, fired, lookups, superseded, lookupHist>>

\* Unmount: the cleanups of both effects run.
Unmount ==
    /\ mounted
    /\ mounted' = FALSE
    /\ liveMaps' = MapCleanup(liveMaps)
    /\ timers' = DebounceCleanup(timers)
    /\ dragging' = FALSE
    /\ Emit(<<>>)
    /\ requested' = <<>>
    /\ errorLogged' = FALSE
    /\ UNCHANGED <<mapContainer, props, open, map, marker, handlerCb, searchInput, searchResults,
                   timeoutId, inflight, unhandled, fired, lookups, superseded, lookupHist>>

Next ==
    \/ \E text \in TypedTexts : Type(text)
    \/ \E tm \in timers : TimerFire(tm)
    \/ Tick
    \/ \E i \in 1..MaxInflight, features \in Responses : FetchResolve(i, features)
    \/ \E i \in 1..MaxInflight, kind \in FailureKinds : FetchFail(i, kind)
    \/ InputClick
    \/ TriggerPress
    \/ PopoverDismiss
    \/ \E i \in 1..Len(searchResults) : SelectLocation(i)
    \/ \E c \in Coords : MapClick(c)
    \/ \E c \in Coords : MarkerDrag(c)
    \/ MarkerDragEnd
    \/ \E z \in Zooms : MapZoom(z)
    \/ \E c \in Coords, cb \in Callbacks : PropsChange(c, cb)
    \/ Unmount

Spec == Init /\ [][Next]_vars

\* ================================================================ claims
\* "Empty or only whitespace", stated on the text itself.
OnlyWhitespace(text) == \A i \in 1..Len(text) : text[i] \in Whitespace

\* C1: at most one debounce timer is armed in every state, and it is the one
\* the latest run of the effect armed; every change of the search text leaves
\* exactly the newly armed 300ms timer for the new text, so no cancelled
\* timer is left to fire.
C1_OneTimerArmed ==
    /\ [](Cardinality(timers) <= 1 /\ \A t \in timers : t.id = timeoutId)
    /\ [][searchInput' # searchInput =>
            timers' = {[id |-> timeoutId', query |-> searchInput', remaining |-> DebounceMs]}]_vars

C1_Witness == superseded /\ timers # {} /\ mounted

\* C2: while mounted with a non-blank text, the keystroke sequence that ended
\* in it has issued no lookup as long as its timer is pending and exactly one
\* once the timer has run.
C2_OneLookupPerSequence ==
    (mounted /\ ~OnlyWhitespace(searchInput)) =>
        /\ lookups = (IF timers = {} THEN 1 ELSE 0)
        /\ fired = lookups

C2_Witness ==
    mounted /\ ~OnlyWhitespace(searchInput) /\ superseded /\ timers = {} /\ lookups = 1

\* C3: once unmounted no timer is armed and no step issues a lookup.
C3_NoLookupAfterUnmount == ~mounted => (timers = {} /\ requested = <<>>)

\* Unmounted while the timer of a non-blank text was still pending.
C3_Witness == ~mounted /\ ~OnlyWhitespace(searchInput) /\ fired = 0

\* C4: no request is ever issued for an empty or whitespace-only query.
C4_NoBlankRequest ==
    /\ \A i \in 1..Len(inflight) : ~OnlyWhitespace(inflight[i].query)
    /\ \A i \in 1..Len(requested) : ~OnlyWhitespace(requested[i])

\* The timer has run for a whitespace-only text.
C4_Witness == mounted /\ fired = 1 /\ searchInput = <<" ">> /\ timers = {}

\* C5: once the timer has run for an empty or whitespace-only text, and
\* until the text changes, the result list is empty.
C5_BlankTextListEmpty ==
    (mounted /\ OnlyWhitespace(searchInput) /\ fired >= 1) => searchResults = <<>>

C7_MapClickEffects ==
    [][\A c \in Coords :
          MapClick(c) =>
              /\ <<marker'.lat, marker'.lng>> = <<c.lat, c.lng>>
              /\ Len(emitted') = 1
              /\ emitted'[1].args = <<c.lat, c.lng>>
              /\ map'.center = map.center
              /\ map'.zoom = map.zoom]_vars

\* A click has moved the marker off the map's center, on a map the user zoomed.
C7_Witness ==
    /\ emitted # <<>>
    /\ emitted[1].by = "click"
    /\ <<marker.lng, marker.lat>> # map.center
    /\ map.zoom = FlyZoom

\* C8: a drag-end calls the host callback exactly once, with the coordinate
\* the marker rests at; a drag movement calls nothing.
C8_DragEndCallsOnce ==
    [][/\ MarkerDragEnd =>
            /\ Len(emitted') = 1
            /\ emitted'[1].args = <<marker'.lat, marker'.lng>>
            /\ marker' = marker
       /\ (\E c \in Coords : MarkerDrag(c)) => (emitted' = <<>> /\ lastCall' = lastCall)]_vars

\* A drag has ended with the marker away from the initial coordinate.
C8_Witness ==
    /\ emitted # <<>>
    /\ emitted[1].by = "dragend"
    /\ emitted[1].args = <<marker.lat, marker.lng>>
    /\ <<marker.lat, marker.lng>> # <<initialLat, initialLng>>

\* C9: a lookup that fails, in any of the three ways, leaves the result list
\* of the mounted component empty, and no rejection leaves handleSearch:
\* a step that settles a lookup has these effects or is not a failure.
C9_FailureClearsList ==
    [][Len(inflight') < Len(inflight) =>
          \/ /\ mounted => searchResults' = <<>>
             /\ errorLogged'
             /\ ~unhandled'
          \/ ~(\E i \in 1..Len(inflight), kind \in FailureKinds : FetchFail(i, kind))]_vars

\* A failure has just been caught while the list was on display.
C9_Witness == mounted /\ errorLogged /\ searchResults = <<>> /\ open /\ ~unhandled

\* C10: outside a drag, the marker of a mounted component is at the
\* coordinate last passed to the host callback, or at the initial
\* coordinate when the callback was never called.
C10_MarkerMirrorsLastCall ==
    (mounted /\ marker.id # 0 /\ ~dragging) =>
        <<marker.lat, marker.lng>> =
            (IF lastCall = NoCall THEN <<initialLat, initialLng>> ELSE lastCall)

\* C11 as stated: a mounted component has exactly one live map, and
\* map.current and marker.current name it and its marker.
C11_OneLiveMapPerMount ==
    mounted => (Cardinality(liveMaps) = 1 /\ map.id \in liveMaps /\ marker.id = map.id)

\* C11 as amended: a mounted component whose map container is attached has
\* exactly one live map, the one map.current names, with the marker
\* marker.current names on it; one whose container is missing has none.
\* After unmount no map is live, and a selection only ever uses handles of
\* a live map and marker.
C11_OneLiveMapWhenContainer ==
    /\ []((mounted /\ mapContainer) =>
            (map.id # 0 /\ liveMaps = {map.id} /\ marker.id = map.id))
    /\ []((mounted /\ ~mapContainer) => (liveMaps = {} /\ map = NoMap /\ marker = NoMarker))
    /\ [](~mounted => liveMaps = {})
    /\ [][\A i \in 1..Len(searchResults) :
            (SelectLocation(i) /\ (map.id # 0 \/ marker.id # 0)) =>
                (map.id \in liveMaps /\ marker.id \in liveMaps)]_vars

\* Unmounted with a map the user had zoomed or flown: that map is released,
\* while map.current still names it.
C11_Witness ==
    /\ ~mounted
    /\ map.id # 0
    /\ map.zoom = FlyZoom
    /\ liveMaps = {}

C13_MapInteractionFrame ==
    [][((\E c \in Coords : MapClick(c)) \/ MarkerDragEnd) =>
          /\ searchInput' = searchInput
          /\ searchResults' = searchResults
          /\ open' = open
          /\ timers' = timers
          /\ inflight' = inflight
          /\ requested' = <<>>
          /\ map' = map
          /\ Len(emitted') = 1]_vars

\* A map interaction took place while the list was open with results in
\* it and a debounce timer was pending.
C13_Witness ==
    /\ emitted # <<>>
    /\ emitted[1].by \in {"click", "dragend"}
    /\ open
    /\ searchResults # <<>>
    /\ timers # {}

\* C14: with the map container missing, no run of the map effect (on mount
\* or after a change of props) creates a map or a marker, and no click or
\* drag handler ever runs; a result selection then still sets the search
\* text to the label, closes the list and calls the host callback once with
\* (lat, lng), and leaves map.current and marker.current null.
C14_MissingContainerSkipsMap ==
    /\ [](~mapContainer =>
            /\ map = NoMap
            /\ marker = NoMarker
            /\ liveMaps = {}
            /\ ~dragging
            /\ \A k \in 1..Len(emitted) : emitted[k].by = "select")
    /\ [][\A i \in 1..Len(searchResults) :
            (SelectLocation(i) /\ ~mapContainer) =>
                /\ searchInput' = searchResults[i].place_name
                /\ open' = FALSE
                /\ Len(emitted') = 1
                /\ emitted'[1].args = <<searchResults[i].center[2], searchResults[i].center[1]>>
                /\ map' = NoMap
                /\ marker' = NoMarker]_vars

\* A selection of a place away from the initial coordinate was made in a
\* component that has no map.
C14_Witness ==
    /\ mounted
    /\ ~mapContainer
    /\ emitted # <<>>
    /\ emitted[1].by = "select"
    /\ ~open
    /\ searchInput \in Labels
    /\ <<initialLat, initialLng>> # emitted[1].args

\* C15: nothing ties a response to the latest lookup.  The response of a
\* lookup that is not the one issued last still replaces the list, entry by
\* entry, so when a lookup resolves after one issued later has settled, the
\* list that remains is that of the earlier, stale lookup: a step that
\* settles a lookup installs the features f and marks the list stale, or it
\* is not the resolution with f of a lookup other than the latest.
C15_StaleResponseInstalled ==
    [][(Len(inflight') < Len(inflight) /\ mounted) =>
          \A f \in Responses :
              \/ /\ Len(searchResults') = Len(f)
                 /\ \A k \in 1..Len(f) :
                       /\ searchResults'[k].place_name = f[k].place_name
                       /\ searchResults'[k].center = f[k].center
                 /\ staleList'
              \/ ~(\E i \in 1..Len(inflight) : ~IsLatest(i) /\ FetchResolve(i, f))]_vars

\* Every lookup has settled, no timer is pending, and the list on display is
\* the response of a lookup issued before the last one.
C15_Witness ==
    /\ mounted
    /\ inflight = <<>>
    /\ timers = {}
    /\ staleList
    /\ searchResults # <<>>
    /\ open

\* C16: a successful lookup of a mounted component replaces the whole list
\* with one entry per returned feature, in the same order, each with that
\* feature's label and its center as [longitude, latitude], and nothing
\* else: a step that settles a lookup leaves exactly the entries of f, or it
\* is not a resolution with f.
C16_ResponseReplacesList ==
    [][(Len(inflight') < Len(inflight) /\ mounted) =>
          \A f \in Responses :
              \/ /\ DOMAIN searchResults' = 1..Len(f)
                 /\ \A k \in 1..Len(f) :
                       /\ DOMAIN searchResults'[k] = {"place_name", "center"}
                       /\ searchResults'[k].place_name = f[k].place_name
                       /\ searchResults'[k].center[1] = f[k].center[1]
                       /\ searchResults'[k].center[2] = f[k].center[2]
                       /\ Len(searchResults'[k].center) = 2
              \/ ~(\E i \in 1..Len(inflight) : FetchResolve(i, f))]_vars

\* The only lookup of the keystroke sequence has resolved with two features,
\* and the list on display holds both, the second with its own coordinate.
C16_Witness ==
    /\ mounted
    /\ open
    /\ lookups = 1
    /\ inflight = <<>>
    /\ ~staleList
    /\ Len(searchResults) = 2
    /\ searchResults[1].place_name = LabelA
    /\ searchResults[2].place_name = LabelB
    /\ searchResults[2].center = <<DefaultLng, DefaultLat>>

\* C17: a selection sets the search text to the result's label; when the
\* label differs from the text it leaves exactly one armed timer, a new 300ms
\* one for the label, and when the label is the text it re-arms nothing.  A
\* timer that runs for a label issues a lookup for that label.
C17_SelectionTriggersLookup ==
    [][/\ \A i \in 1..Len(searchResults) :
            SelectLocation(i) =>
                LET label == searchResults[i].place_name
                IN  /\ searchInput' = label
                    /\ label # searchInput =>
                          timers' = {[id |-> timeoutId', query |-> label, remaining |-> DebounceMs]}
                    /\ label = searchInput => (timers' = timers /\ timeoutId' = timeoutId)
       /\ \A tm \in timers :
            (TimerFire(tm) /\ tm.query \in Labels) =>
                /\ requested' = <<tm.query>>
                /\ inflight' = Append(inflight, Request(tm.query))]_vars

\* A lookup has just been issued for a label the user cannot type: the
\* selection of the second result armed the timer that issued it.
C17_Witness ==
    /\ mounted
    /\ requested = <<LabelB>>
    /\ searchInput = LabelB
    /\ LabelB \notin TypedTexts
    /\ ~open

\* C18: every armed timer carries the current search text, and every lookup
\* is issued for the search text current at the step that issues it.
C18_LookupUsesCurrentText ==
    /\ \A t \in timers : t.query = searchInput
    /\ requested # <<>> => requested = <<searchInput>>

\* A lookup has just been issued at the end of a keystroke sequence in which
\* an earlier text's timer was cancelled.
C18_Witness ==
    /\ mounted
    /\ superseded
    /\ requested # <<>>
    /\ requested = <<searchInput>>
    /\ timers = {}

====
